---- MODULE Spec2Model ----
(***************************************************************************)
(* A model of the sticky-mitten avatar control loop                        *)
(* (sticky_mitten_avatar/avatars/avatar.py, sticky_mitten_avatar/util.py). *)
(*                                                                         *)
(* Numbers.  The code computes on floats; the model computes on integers:  *)
(*   - a length is an integer number of 0.01 simulation units, so the     *)
(*     "at target" distance 0.1 is 10;                                    *)
(*   - an angle is an integer number of 0.01 degrees, so the "moving"      *)
(*     threshold 0.03 is 3, 90 is 9000 and 180 is 18000; a solver          *)
(*     rotation is an integer number of milliradians;                      *)
(*   - np.linalg.norm(v) is compared through its square, Norm2(v):         *)
(*     d < 0.1 is Norm2 < 10 * 10 and d_left <= d_right is                 *)
(*     Norm2 left <= Norm2 right;                                         *)
(*   - a facing is one of the four horizontal axis directions, so the      *)
(*     rotations of util.py are by multiples of 90 degrees and exact.      *)
(*                                                                         *)
(* Python's None is the record None.  An Optional[int] that is set is the  *)
(* record Some(i), so that it can be compared with None.                   *)
(***************************************************************************)
EXTENDS Integers, Sequences, FiniteSets, TLC

VARIABLES
    ik_goals,        \* Avatar._ik_goals: arm -> None or an _IKGoal
    frame,           \* Avatar.frame: the current AvatarStickyMitten record
    collisions,      \* Avatar.collisions: body part id -> list of object ids
    env_collisions,  \* Avatar.env_collisions: list of body part ids
    call,            \* the last public call and its arguments
    ret,             \* what the last call returned: commands, arm, raised
    pre_goals,       \* _ik_goals as they were when the last call began
    net_force,       \* joint -> sum of the force deltas emitted so far
    net_damper       \* joint -> sum of the damper deltas emitted so far

vars == <<ik_goals, frame, collisions, env_collisions, call, ret, pre_goals,
          net_force, net_damper>>

(***************************************************************************)
(* Bounds of the model.                                                    *)
(***************************************************************************)
\* Object ids are 0 .. MaxObjectId.
MaxObjectId == 1
\* bend_arm / pick_up are not called for an arm whose joints already carry
\* MaxPendingBends unreverted force bonuses.
MaxPendingBends == 2

(***************************************************************************)
(* Values.                                                                 *)
(***************************************************************************)
None == [none |-> TRUE]
Some(v) == [some |-> v]

\* class Arm(Enum); a dict keyed by Arm iterates left, then right.
Arm == {"left", "right"}
ArmOrder == <<"left", "right">>

\* Avatar.id and Avatar._debug as the avatar is constructed by default.
id == "a"
_debug == FALSE

\* Joint.__init__
Joint(part, arm, axis) ==
    [joint |-> part \o "_" \o arm, axis |-> axis, arm |-> arm]

\* Avatar.JOINTS
JOINTS ==
    << Joint("shoulder", "left", "pitch"),
       Joint("shoulder", "left", "yaw"),
       Joint("shoulder", "left", "roll"),
       Joint("elbow", "left", "pitch"),
       Joint("wrist", "left", "roll"),
       Joint("wrist", "left", "pitch"),
       Joint("shoulder", "right", "pitch"),
       Joint("shoulder", "right", "yaw"),
       Joint("shoulder", "right", "roll"),
       Joint("elbow", "right", "pitch"),
       Joint("wrist", "right", "roll"),
       Joint("wrist", "right", "pitch") >>

\* Additional force applied to bending joints; damper delta when bending.
_BEND_FORCE == 80
_BEND_DAMPER == -300

\* The literals of on_frame and _stop_arms, in the model's units.
AT_TARGET_DISTANCE == 10
MOVING_THRESHOLD == 3
RIGHT_ANGLE == 9000
STRAIGHT_ANGLE == 18000

\* util.FORWARD
FORWARD == <<0, 0, 1>>

\* _IKGoal.__init__
_IKGoal(target, pick_up_id) == [target |-> target, pick_up_id |-> pick_up_id]

(***************************************************************************)
(* util.py                                                                 *)
(***************************************************************************)
VAdd(a, b) == <<a[1] + b[1], a[2] + b[2], a[3] + b[3]>>
VSub(a, b) == <<a[1] - b[1], a[2] - b[2], a[3] - b[3]>>
\* The square of np.linalg.norm(v).
Norm2(v) == v[1] * v[1] + v[2] * v[2] + v[3] * v[3]

\* np.rad2deg(np.arctan2(y, x)) for a horizontal axis direction (x, y).
Arctan2Deg(y, x) ==
    CASE y = 0 /\ x > 0 -> 0
      [] y > 0 /\ x = 0 -> 90
      [] y = 0 /\ x < 0 -> 180
      [] y < 0 /\ x = 0 -> -90
      [] OTHER -> 0

\* get_angle_between: v[0] is v[1] here, v[2] is v[3].
get_angle_between(v1, v2) ==
    LET ang1 == Arctan2Deg(v1[3], v1[1])
        ang2 == Arctan2Deg(v2[3], v2[1])
    IN  (ang1 - ang2) % 360

\* np.cos and np.sin of np.deg2rad(angle), angle a multiple of 90.
CosDeg(angle) ==
    CASE angle % 360 = 0 -> 1
      [] angle % 360 = 180 -> -1
      [] OTHER -> 0
SinDeg(angle) ==
    CASE angle % 360 = 90 -> 1
      [] angle % 360 = 270 -> -1
      [] OTHER -> 0

\* rotate_point_around
rotate_point_around(point, angle, origin) ==
    LET x == point[1]
        y == point[3]
        offset_x == origin[1]
        offset_y == origin[3]
        adjusted_x == x - offset_x
        adjusted_y == y - offset_y
        cos_rad == CosDeg(angle)
        sin_rad == SinDeg(angle)
        qx == offset_x + cos_rad * adjusted_x + sin_rad * adjusted_y
        qy == offset_y + (0 - sin_rad) * adjusted_x + cos_rad * adjusted_y
    IN  <<qx, point[2], qy>>

\* The default origin of rotate_point_around.
ORIGIN == <<0, 0, 0>>

(***************************************************************************)
(* Commands.                                                               *)
(***************************************************************************)
BendArmJointTo(angle, joint, axis) ==
    [type |-> "bend_arm_joint_to", angle |-> angle, joint |-> joint,
     axis |-> axis, avatar_id |-> id]
AdjustJointForceBy(delta, joint, axis) ==
    [type |-> "adjust_joint_force_by", delta |-> delta, joint |-> joint,
     axis |-> axis, avatar_id |-> id]
AdjustJointDamperBy(delta, joint, axis) ==
    [type |-> "adjust_joint_damper_by", delta |-> delta, joint |-> joint,
     axis |-> axis, avatar_id |-> id]
PickUpProximity(is_left, object_ids) ==
    [type |-> "pick_up_proximity", distance |-> 15, radius |-> 10,
     grip |-> 1000, is_left |-> is_left, avatar_id |-> id,
     object_ids |-> object_ids]
PickUp(is_left, object_ids) ==
    [type |-> "pick_up", grip |-> 1000, is_left |-> is_left,
     object_ids |-> object_ids, avatar_id |-> id]
PutDown(is_left) ==
    [type |-> "put_down", is_left |-> is_left, avatar_id |-> id]

\* The concatenation of the lists f[1], ..., f[n] (commands.extend in a loop).
RECURSIVE Flatten(_, _)
Flatten(f, n) == IF n = 0 THEN <<>> ELSE Flatten(f, n - 1) \o f[n]

(***************************************************************************)
(* The arm chains and the IK solver (external collaborators).              *)
(***************************************************************************)
\* Avatar._arms[arm].links: the fixed base link, the six actuated links and
\* the end effector.  A link's name is given as name.split("_").
ArmLinks(arm) ==
    << <<"avatar">>,
       <<"shoulder", "pitch">>, <<"shoulder", "yaw">>, <<"shoulder", "roll">>,
       <<"elbow", "pitch">>,
       <<"wrist", "roll">>, <<"wrist", "pitch">>,
       <<"mitten">> >>

\* Chain.inverse_kinematics: one rotation per link, a function of the chain
\* and of the request.
inverse_kinematics(arm, target_position, target_orientation) ==
    [i \in 1..Len(ArmLinks(arm)) |->
        (IF arm = "left" THEN 100 ELSE -100) * i + target_position[3]]

\* np.rad2deg of a rotation in milliradians, in 0.01 degrees.
Rad2Deg(r) == (r * 57296) \div 10000

Min(a, b) == IF a <= b THEN a ELSE b

(***************************************************************************)
(* Avatar._stop_arms, read against the frame fr (self.frame).              *)
(***************************************************************************)
\* As StopTheta, but the angle is passed as read.
StopTheta_NoFold(a) == a

StopTheta(a) == IF a > RIGHT_ANGLE THEN STRAIGHT_ANGLE - a ELSE a

\* As StopJointCommands, but the deltas of bend_arm are applied once more.
StopJointCommands_SameSign(j, a) ==
    << BendArmJointTo(StopTheta(a), j.joint, j.axis),
       AdjustJointForceBy(_BEND_FORCE, j.joint, j.axis),
       AdjustJointDamperBy(_BEND_DAMPER, j.joint, j.axis) >>

StopJointCommands(j, a) ==
    << BendArmJointTo(StopTheta(a), j.joint, j.axis),
       AdjustJointForceBy(0 - _BEND_FORCE, j.joint, j.axis),
       AdjustJointDamperBy(0 - _BEND_DAMPER, j.joint, j.axis) >>

_stop_arms(arm, fr) ==
    LET joints == IF arm = "left" THEN SubSeq(JOINTS, 1, 6)
                                  ELSE SubSeq(JOINTS, 7, Len(JOINTS))
        angles == IF arm = "left" THEN fr.angles_left ELSE fr.angles_right
        n == Min(Len(joints), Len(angles))
    IN  Flatten([k \in 1..n |-> StopJointCommands(joints[k], angles[k])], n)

(***************************************************************************)
(* Avatar.bend_arm: the goals and the commands it leaves, given the        *)
(* solver's answer.                                                        *)
(***************************************************************************)
\* As BendJointCommands, but the damper is left as it is.
BendJointCommands_NoDamper(c, r, a) ==
    LET j == c
        joint == j[1] \o "_" \o a
        axis == j[2]
    IN  << BendArmJointTo(Rad2Deg(r), joint, axis),
           AdjustJointForceBy(_BEND_FORCE, joint, axis) >>

\* The commands of one pass of bend_arm's loop over the links.
BendJointCommands(c, r, a) ==
    LET j == c
        joint == j[1] \o "_" \o a
        axis == j[2]
    IN  << BendArmJointTo(Rad2Deg(r), joint, axis),
           AdjustJointForceBy(_BEND_FORCE, joint, axis),
           AdjustJointDamperBy(_BEND_DAMPER, joint, axis) >>

BendTarget(fr, ik_target) ==
    LET angle == get_angle_between(FORWARD, fr.forward)
    IN  VAdd(rotate_point_around(ik_target, angle, ORIGIN), fr.position)

bend_arm(goals, fr, arm, target, target_orientation) ==
    LET ik_target == target
        rotations == inverse_kinematics(arm, ik_target, target_orientation)
        links == ArmLinks(arm)
        ls == SubSeq(links, 2, Len(links) - 1)
        rs == SubSeq(rotations, 2, Len(rotations) - 1)
        n == Min(Len(ls), Len(rs))
    IN  [ik_goals |-> [goals EXCEPT
                         ![arm] = _IKGoal(BendTarget(fr, ik_target), None)],
         commands |-> Flatten([k \in 1..n |->
                                 BendJointCommands(ls[k], rs[k], arm)], n)]

(***************************************************************************)
(* Avatar.pick_up                                                          *)
(***************************************************************************)
\* As BoundsIndex, but the last entry is taken when none has this id.
RECURSIVE BoundsIndex_LastEntry(_, _, _)
BoundsIndex_LastEntry(bounds, object_id, i) ==
    IF i > Len(bounds) THEN Len(bounds)
    ELSE IF bounds[i].id = object_id THEN i
    ELSE BoundsIndex_LastEntry(bounds, object_id, i + 1)

\* The index of the first entry of bounds with this id, 0 if there is none.
RECURSIVE BoundsIndex(_, _, _)
BoundsIndex(bounds, object_id, i) ==
    IF i > Len(bounds) THEN 0
    ELSE IF bounds[i].id = object_id THEN i
    ELSE BoundsIndex(bounds, object_id, i + 1)

Abs(n) == IF n < 0 THEN 0 - n ELSE n
RECURSIVE Gcd(_, _)
Gcd(a, b) == IF b = 0 THEN a ELSE Gcd(b, a % b)

\* v / np.linalg.norm(v).  A unit vector is held as the shortest integer
\* vector of its direction; 0 / 0 is nan in every component.
NaN == [nan |-> TRUE]
Normalized(v) ==
    LET g == Gcd(Gcd(Abs(v[1]), Abs(v[2])), Abs(v[3]))
    IN  IF g = 0 THEN <<NaN, NaN, NaN>>
        ELSE <<v[1] \div g, v[2] \div g, v[3] \div g>>

\* As PickUpArm, but a tie goes to the right arm.
PickUpArm_TieRight(fr, center) ==
    LET d_left == Norm2(VSub(fr.mitten_left, center))
        d_right == Norm2(VSub(fr.mitten_right, center))
    IN  IF d_left < d_right THEN "left" ELSE "right"

\* "Get the nearest mitten."
PickUpArm(fr, center) ==
    LET d_left == Norm2(VSub(fr.mitten_left, center))
        d_right == Norm2(VSub(fr.mitten_right, center))
    IN  IF d_left <= d_right THEN "left" ELSE "right"

PickUpOrientation(fr, center) ==
    LET mitten == IF PickUpArm(fr, center) = "left" THEN fr.mitten_left
                                                    ELSE fr.mitten_right
    IN  Normalized(VSub(mitten, center))

PickUpTarget(fr, center) ==
    LET angle == get_angle_between(FORWARD, fr.forward)
    IN  rotate_point_around(VSub(center, fr.position), 0 - angle, ORIGIN)
\* As pick_up, but an object is left to one arm: the other arm's goal is
\* dropped when it is after the same object.
pick_up_Exclusive(goals, fr, object_id, bounds) ==
    LET i == BoundsIndex(bounds, object_id, 1)
    IN  IF i = 0
        THEN [raised |-> TRUE, ik_goals |-> goals, commands |-> <<>>,
              arm |-> None, target_orientation |-> None]
        ELSE LET center == bounds[i].center
                 arm == PickUpArm(fr, center)
                 other == IF arm = "left" THEN "right" ELSE "left"
                 bent == bend_arm(goals, fr, arm, PickUpTarget(fr, center),
                                  PickUpOrientation(fr, center))
             IN  [raised |-> FALSE,
                  ik_goals |->
                    [bent.ik_goals EXCEPT
                       ![arm].pick_up_id = Some(object_id),
                       ![other] = IF @ /= None /\ @.pick_up_id = Some(object_id)
                                  THEN None ELSE @],
                  commands |-> bent.commands,
                  arm |-> Some(arm),
                  target_orientation |-> Some(PickUpOrientation(fr, center))]

pick_up(goals, fr, object_id, bounds) ==
    LET i == BoundsIndex(bounds, object_id, 1)
    IN  IF i = 0
        THEN [raised |-> TRUE, ik_goals |-> goals, commands |-> <<>>,
              arm |-> None, target_orientation |-> None]
        ELSE LET center == bounds[i].center
                 arm == PickUpArm(fr, center)
                 bent == bend_arm(goals, fr, arm, PickUpTarget(fr, center),
                                  PickUpOrientation(fr, center))
             IN  [raised |-> FALSE,
                  ik_goals |-> [bent.ik_goals EXCEPT
                                  ![arm].pick_up_id = Some(object_id)],
                  commands |-> bent.commands,
                  arm |-> Some(arm),
                  target_orientation |-> Some(PickUpOrientation(fr, center))]

(***************************************************************************)
(* Avatar.put_down, reset_arms, set_dummy_ik_goals                         *)
(***************************************************************************)
\* As set_dummy_ik_goals, but an arm that has a goal keeps it.
set_dummy_ik_goals_KeepBusy(goals) ==
    [arm \in DOMAIN goals |->
        IF goals[arm] = None THEN _IKGoal(None, None) ELSE goals[arm]]

set_dummy_ik_goals(goals) == [arm \in DOMAIN goals |-> _IKGoal(None, None)]

\* As reset_arms_commands, but each joint is stopped as _stop_arms stops it.
reset_arms_commands_Stop ==
    Flatten([k \in 1..Len(JOINTS) |-> StopJointCommands(JOINTS[k], 0)],
            Len(JOINTS))

\* The commands of reset_arms.
reset_arms_commands ==
    [k \in 1..Len(JOINTS) |-> BendArmJointTo(0, JOINTS[k].joint, JOINTS[k].axis)]

put_down(goals, reset_arms) ==
    LET commands == <<PutDown(TRUE), PutDown(FALSE)>>
    IN  IF reset_arms
        THEN [ik_goals |-> set_dummy_ik_goals(goals),
              commands |-> commands \o reset_arms_commands]
        ELSE [ik_goals |-> goals, commands |-> commands]

(***************************************************************************)
(* Avatar.on_frame                                                         *)
(***************************************************************************)
\* Avatar.body_parts_static: the ids of the registered body parts.
body_parts_static == {10, 11}
\* As _get_frame, but the first "avsm" record is taken, whose ever it is.
RECURSIVE _get_frame_AnyAvatar(_, _)
_get_frame_AnyAvatar(resp, i) ==
    IF i > Len(resp) - 1 THEN 0
    ELSE IF resp[i].r_id = "avsm" THEN i
    ELSE _get_frame_AnyAvatar(resp, i + 1)

\* Avatar._get_frame: the index in resp of this avatar's first "avsm"
\* record among resp[0 .. len(resp) - 2], 0 if there is none (it raises).
RECURSIVE _get_frame(_, _)
_get_frame(resp, i) ==
    IF i > Len(resp) - 1 THEN 0
    ELSE IF resp[i].r_id = "avsm" /\ resp[i].avatar_id = id THEN i
    ELSE _get_frame(resp, i + 1)

\* d[key].append(value), with d[key] = [] first when key is not in d.
DictAppend(d, key, value) ==
    IF key \in DOMAIN d
    THEN [d EXCEPT ![key] = Append(@, value)]
    ELSE (key :> <<value>>) @@ d
\* As CollisionStep, but a contact of two body parts is kept as well.
CollisionStep_PartVsPart(acc, r) ==
    IF r.r_id = "coll"
    THEN IF r.collider_id \in body_parts_static
         THEN [acc EXCEPT !.collisions =
                             DictAppend(@, r.collider_id, r.collidee_id)]
         ELSE IF r.collidee_id \in body_parts_static
         THEN [acc EXCEPT !.collisions =
                             DictAppend(@, r.collidee_id, r.collider_id)]
         ELSE acc
    ELSE IF r.r_id = "enco"
    THEN IF r.object_id \in body_parts_static
         THEN [acc EXCEPT !.env_collisions = Append(@, r.object_id)]
         ELSE acc
    ELSE acc

\* One pass of the loop over the collision records: acc holds collisions
\* and env_collisions after resp[0 .. i - 2].
CollisionStep(acc, r) ==
    IF r.r_id = "coll"
    THEN IF r.collider_id \in body_parts_static
            /\ r.collidee_id \notin body_parts_static
         THEN [acc EXCEPT !.collisions =
                             DictAppend(@, r.collider_id, r.collidee_id)]
         ELSE IF r.collidee_id \in body_parts_static
                 /\ r.collider_id \notin body_parts_static
         THEN [acc EXCEPT !.collisions =
                             DictAppend(@, r.collidee_id, r.collider_id)]
         ELSE acc
    ELSE IF r.r_id = "enco"
    THEN IF r.object_id \in body_parts_static
         THEN [acc EXCEPT !.env_collisions = Append(@, r.object_id)]
         ELSE acc
    ELSE acc

RECURSIVE CollisionLoop(_, _)
CollisionLoop(resp, n) ==
    IF n = 0 THEN [collisions |-> <<>>, env_collisions |-> <<>>]
    ELSE CollisionStep(CollisionLoop(resp, n - 1), resp[n])

MittenPosition(fr, arm) ==
    IF arm = "left" THEN fr.mitten_left ELSE fr.mitten_right

\* "d < 0.1" for the distance d of the mitten from the goal's target.
AtTarget(goal, new_frame, arm) ==
    Norm2(VSub(MittenPosition(new_frame, arm), goal.target))
        < AT_TARGET_DISTANCE * AT_TARGET_DISTANCE

InList(x, list) == \E k \in 1..Len(list) : list[k] = x

\* As PickedUp, but only the left mitten's list is read.
PickedUp_LeftOnly(goal, new_frame) ==
    InList(goal.pick_up_id.some, new_frame.held_left)

\* "pick_up_id in frame.get_held_left() or ... in frame.get_held_right()"
PickedUp(goal, new_frame) ==
    \/ InList(goal.pick_up_id.some, new_frame.held_left)
    \/ InList(goal.pick_up_id.some, new_frame.held_right)
\* As GraspCommands, but both commands name the left mitten.
GraspCommands_LeftOnly(goal, arm) ==
    << PickUpProximity(TRUE, <<goal.pick_up_id.some>>),
       PickUp(TRUE, <<goal.pick_up_id.some>>) >>

GraspCommands(goal, arm) ==
    << PickUpProximity(arm = "left", <<goal.pick_up_id.some>>),
       PickUp(arm = "left", <<goal.pick_up_id.some>>) >>
\* As GoalStep, but an arm stopped at its target still goes on to the grasp
\* attempt of its goal.
GoalStep_NoContinue(goal, arm, old_frame, new_frame) ==
    IF goal = None
    THEN [commands |-> <<>>, goal |-> None]
    ELSE IF goal.target = None
    THEN [commands |-> <<>>, goal |-> goal]
    ELSE IF AtTarget(goal, new_frame, arm)
    THEN [commands |-> _stop_arms(arm, old_frame)
                         \o (IF goal.pick_up_id /= None
                             THEN GraspCommands(goal, arm) ELSE <<>>),
          goal |-> None]
    ELSE IF goal.pick_up_id /= None
    THEN IF PickedUp(goal, new_frame)
         THEN [commands |-> _stop_arms(arm, old_frame), goal |-> None]
         ELSE [commands |-> GraspCommands(goal, arm), goal |-> goal]
    ELSE [commands |-> <<>>,
          goal |-> [target |-> goal.target, pick_up_id |-> goal.pick_up_id,
                    previous_distance |->
                        Norm2(VSub(MittenPosition(new_frame, arm),
                                   goal.target))]]

\* As GoalStep, but the goal is dropped once the grasp is attempted.
GoalStep_GraspClears(goal, arm, old_frame, new_frame) ==
    IF goal = None
    THEN [commands |-> <<>>, goal |-> None]
    ELSE IF goal.target = None
    THEN [commands |-> <<>>, goal |-> goal]
    ELSE IF AtTarget(goal, new_frame, arm)
    THEN [commands |-> _stop_arms(arm, old_frame), goal |-> None]
    ELSE IF goal.pick_up_id /= None
    THEN IF PickedUp(goal, new_frame)
         THEN [commands |-> _stop_arms(arm, old_frame), goal |-> None]
         ELSE [commands |-> GraspCommands(goal, arm), goal |-> None]
    ELSE [commands |-> <<>>,
          goal |-> [target |-> goal.target, pick_up_id |-> goal.pick_up_id,
                    previous_distance |->
                        Norm2(VSub(MittenPosition(new_frame, arm),
                                   goal.target))]]

\* The first loop of on_frame for one arm ("Check if IK goals are done"):
\* the commands it adds and the arm's entry of temp_goals.
GoalStep(goal, arm, old_frame, new_frame) ==
    IF goal = None
    THEN [commands |-> <<>>, goal |-> None]
    ELSE IF goal.target = None
    THEN [commands |-> <<>>, goal |-> goal]
    ELSE IF AtTarget(goal, new_frame, arm)
    THEN [commands |-> _stop_arms(arm, old_frame), goal |-> None]
    ELSE IF goal.pick_up_id /= None
    THEN IF PickedUp(goal, new_frame)
         THEN [commands |-> _stop_arms(arm, old_frame), goal |-> None]
         ELSE [commands |-> GraspCommands(goal, arm), goal |-> goal]
    ELSE [commands |-> <<>>,
          goal |-> [target |-> goal.target, pick_up_id |-> goal.pick_up_id,
                    previous_distance |->
                        Norm2(VSub(MittenPosition(new_frame, arm),
                                   goal.target))]]

\* As Moving, but a joint that changed by exactly the threshold moves.
Moving_AtThreshold(angles_0, angles_1) ==
    \E k \in 1..Min(Len(angles_0), Len(angles_1)) :
        Abs(angles_0[k] - angles_1[k]) >= MOVING_THRESHOLD

\* "Is any joint still moving?"
Moving(angles_0, angles_1) ==
    \E k \in 1..Min(Len(angles_0), Len(angles_1)) :
        Abs(angles_0[k] - angles_1[k]) > MOVING_THRESHOLD

AnglesOf(fr, arm) == IF arm = "left" THEN fr.angles_left ELSE fr.angles_right
\* As StallStep, but a goal without a target is never ended.
StallStep_KeepsDummy(goal, arm, old_frame, new_frame) ==
    IF goal = None THEN None
    ELSE IF goal.target = None THEN goal
    ELSE IF Moving(AnglesOf(old_frame, arm), AnglesOf(new_frame, arm))
    THEN goal
    ELSE None

\* As StallStep, but with the two outcomes swapped.
StallStep_Swapped(goal, arm, old_frame, new_frame) ==
    IF goal = None THEN None
    ELSE IF Moving(AnglesOf(old_frame, arm), AnglesOf(new_frame, arm))
    THEN None
    ELSE goal

\* The second loop of on_frame for one arm ("Check if the arms are still
\* moving").
StallStep(goal, arm, old_frame, new_frame) ==
    IF goal = None THEN None
    ELSE IF Moving(AnglesOf(old_frame, arm), AnglesOf(new_frame, arm))
    THEN goal
    ELSE None
\* As on_frame, but the stall check is made once for both arms: the goals
\* are kept while any arm with a goal is moving.
on_frame_SharedStall(goals, old_frame, old_collisions, old_env_collisions, resp) ==
    LET i == _get_frame(resp, 1)
    IN  IF i = 0
        THEN [raised |-> TRUE, ik_goals |-> goals, frame |-> old_frame,
              collisions |-> old_collisions,
              env_collisions |-> old_env_collisions, commands |-> <<>>]
        ELSE LET new_frame == resp[i].frame
                 coll == CollisionLoop(resp, Len(resp) - 1)
                 step == [arm \in DOMAIN goals |->
                            GoalStep(goals[arm], arm, old_frame, new_frame)]
                 moving == \E arm \in DOMAIN goals :
                               StallStep(step[arm].goal, arm, old_frame,
                                         new_frame) /= None
             IN  [raised |-> FALSE,
                  ik_goals |-> [arm \in DOMAIN goals |->
                                  IF moving THEN step[arm].goal ELSE None],
                  frame |-> new_frame,
                  collisions |-> coll.collisions,
                  env_collisions |-> coll.env_collisions,
                  commands |-> Flatten([k \in 1..Len(ArmOrder) |->
                                          step[ArmOrder[k]].commands],
                                       Len(ArmOrder))]

\* As on_frame, but the collision data are cleared before the frame is looked
\* for.
on_frame_ClearFirst(goals, old_frame, old_collisions, old_env_collisions, resp) ==
    IF _get_frame(resp, 1) = 0
    THEN [raised |-> TRUE, ik_goals |-> goals, frame |-> old_frame,
          collisions |-> <<>>, env_collisions |-> <<>>, commands |-> <<>>]
    ELSE [raised |-> FALSE,
          ik_goals |-> [arm \in DOMAIN goals |->
                          StallStep(GoalStep(goals[arm], arm, old_frame,
                                             resp[_get_frame(resp, 1)].frame).goal,
                                    arm, old_frame,
                                    resp[_get_frame(resp, 1)].frame)],
          frame |-> resp[_get_frame(resp, 1)].frame,
          collisions |-> CollisionLoop(resp, Len(resp) - 1).collisions,
          env_collisions |-> CollisionLoop(resp, Len(resp) - 1).env_collisions,
          commands |-> Flatten([k \in 1..Len(ArmOrder) |->
                                  GoalStep(goals[ArmOrder[k]], ArmOrder[k],
                                           old_frame,
                                           resp[_get_frame(resp, 1)].frame).commands],
                               Len(ArmOrder))]

on_frame(goals, old_frame, old_collisions, old_env_collisions, resp) ==
    LET i == _get_frame(resp, 1)
    IN  IF i = 0
        THEN [raised |-> TRUE, ik_goals |-> goals, frame |-> old_frame,
              collisions |-> old_collisions,
              env_collisions |-> old_env_collisions, commands |-> <<>>]
        ELSE LET new_frame == resp[i].frame
                 coll == CollisionLoop(resp, Len(resp) - 1)
                 step == [arm \in DOMAIN goals |->
                            GoalStep(goals[arm], arm, old_frame, new_frame)]
             IN  [raised |-> FALSE,
                  ik_goals |-> [arm \in DOMAIN goals |->
                                  StallStep(step[arm].goal, arm, old_frame,
                                            new_frame)],
                  frame |-> new_frame,
                  collisions |-> coll.collisions,
                  env_collisions |-> coll.env_collisions,
                  commands |-> Flatten([k \in 1..Len(ArmOrder) |->
                                          step[ArmOrder[k]].commands],
                                       Len(ArmOrder))]

(***************************************************************************)
(* Avatar.is_ik_done and Avatar.is_holding                                 *)
(***************************************************************************)
\* As is_ik_done, but a goal without a target counts as done.
is_ik_done_NoTarget(goals) ==
    /\ (goals["left"] = None \/ goals["left"].target = None)
    /\ (goals["right"] = None \/ goals["right"].target = None)

is_ik_done(goals) == goals["left"] = None /\ goals["right"] = None

\* As is_holding, but the right mitten's list is read first.
is_holding_RightFirst(fr, object_id) ==
    IF InList(object_id, fr.held_right)
    THEN [holding |-> TRUE, arm |-> "right"]
    ELSE IF InList(object_id, fr.held_left)
    THEN [holding |-> TRUE, arm |-> "left"]
    ELSE [holding |-> FALSE, arm |-> "left"]

is_holding(fr, object_id) ==
    IF InList(object_id, fr.held_left)
    THEN [holding |-> TRUE, arm |-> "left"]
    ELSE IF InList(object_id, fr.held_right)
    THEN [holding |-> TRUE, arm |-> "right"]
    ELSE [holding |-> FALSE, arm |-> "left"]

(***************************************************************************)
(* Avatar.can_bend_to, with lengths in units of 0.001                      *)
(***************************************************************************)
TOO_CLOSE == 250
TOO_FAR == 520

\* The shoulder of the arm, as can_bend_to has it.
Shoulder(arm) == IF arm = "left" THEN <<-225, 565, 75>> ELSE <<225, 565, 75>>

\* As can_bend_to, but a target behind the avatar is accepted.
can_bend_to_NoBehind(target, arm) ==
    IF target[1] * target[1] + target[3] * target[3] < TOO_CLOSE * TOO_CLOSE
    THEN FALSE
    ELSE Norm2(VSub(target, Shoulder(arm))) <= TOO_FAR * TOO_FAR

can_bend_to(target, arm) ==
    IF target[1] * target[1] + target[3] * target[3] < TOO_CLOSE * TOO_CLOSE
    THEN FALSE
    ELSE IF Norm2(VSub(target, Shoulder(arm))) > TOO_FAR * TOO_FAR
    THEN FALSE
    ELSE IF target[3] < 0
    THEN FALSE
    ELSE TRUE

(***************************************************************************)
(* util.get_closest_point_in_bounds, with lengths in units of 1            *)
(***************************************************************************)
\* get_bounds_dict: the keys of the dictionary, in the order it is built.
BOUNDS_KEYS == <<"top", "bottom", "left", "right", "front", "back">>

\* The distance the search starts from.
MIN_DISTANCE == 10000

\* The loop over the first n keys: the square of min_distance and the index
\* of min_destination, 0 for the empty string it starts as.
RECURSIVE ClosestAfter(_, _, _)
ClosestAfter(origin, object_bounds, n) ==
    IF n = 0
    THEN [min_distance2 |-> MIN_DISTANCE * MIN_DISTANCE, min_destination |-> 0]
    ELSE LET before == ClosestAfter(origin, object_bounds, n - 1)
             d2 == Norm2(VSub(origin, object_bounds[n]))
         IN  IF d2 < before.min_distance2
             THEN [min_distance2 |-> d2, min_destination |-> n]
             ELSE before

\* object_bounds[min_destination]: a KeyError when no key was chosen.
get_closest_point_in_bounds(origin, object_bounds) ==
    LET found == ClosestAfter(origin, object_bounds, Len(BOUNDS_KEYS))
    IN  IF found.min_destination = 0
        THEN [raised |-> TRUE, key |-> "", point |-> None]
        ELSE [raised |-> FALSE, key |-> BOUNDS_KEYS[found.min_destination],
              point |-> object_bounds[found.min_destination]]

(***************************************************************************)
(* The inputs the build and the caller supply.                             *)
(***************************************************************************)
ObjectIds == 0..MaxObjectId

\* What the build reports of one arm: its joint angles, the position of its
\* mitten's center (on the arm's side of the avatar: side is -1 for the left
\* arm, 1 for the right) and the objects its mitten holds.
ArmReadings(side) ==
    { [angles |-> <<0, 0, 0, 0, 0, 0>>,
       mitten |-> <<3 * side, 0, 24>>, held |-> <<>>],
      [angles |-> <<0, 0, 0, 0, 0, 3>>,
       mitten |-> <<6 * side, 0, 38>>, held |-> <<>>] }
    \cup { [angles |-> <<9500, 9000, 0, 0, 0, 7>>,
            mitten |-> <<3 * side, 0, 24>>, held |-> <<o>>] : o \in ObjectIds }

\* AvatarStickyMitten output data.
MakeFrame(pose, l, r) ==
    [position |-> pose.position, forward |-> pose.forward,
     angles_left |-> l.angles, angles_right |-> r.angles,
     mitten_left |-> l.mitten, mitten_right |-> r.mitten,
     held_left |-> l.held, held_right |-> r.held]

\* The avatar's position and facing: where it is created, and after a move.
StartPose == [position |-> <<0, 0, 0>>, forward |-> <<0, 0, 1>>]
MovedPose == [position |-> <<-30, 0, 40>>, forward |-> <<1, 0, 0>>]

Frames ==
    { MakeFrame(StartPose, l, r) :
        l \in ArmReadings(-1), r \in ArmReadings(1) }
    \cup { MakeFrame(MovedPose, l, r) :
             l \in { x \in ArmReadings(-1) : x.held = <<>> },
             r \in { x \in ArmReadings(1) : x.held = <<>> } }

\* The records of a response; its last element is the frame count.
Avsm(avatar_id, fr) == [r_id |-> "avsm", avatar_id |-> avatar_id, frame |-> fr]
Coll(collider_id, collidee_id) ==
    [r_id |-> "coll", collider_id |-> collider_id, collidee_id |-> collidee_id]
Enco(object_id) == [r_id |-> "enco", object_id |-> object_id]
FrameCount == [r_id |-> "frame"]

RestFrame ==
    MakeFrame(StartPose,
              [angles |-> <<0, 0, 0, 0, 0, 0>>, mitten |-> <<-3, 0, 24>>,
               held |-> <<>>],
              [angles |-> <<0, 0, 0, 0, 0, 0>>, mitten |-> <<3, 0, 24>>,
               held |-> <<>>])

Responses ==
    { <<Avsm(id, fr), FrameCount>> : fr \in Frames }
    \cup { <<Coll(10, 0), Enco(11), Avsm("b", RestFrame), Avsm(id, RestFrame),
             Coll(1, 10), Coll(10, 11), Enco(0), FrameCount>>,
           <<Avsm("b", RestFrame), Coll(10, 0), FrameCount>>,
           <<Avsm(id, RestFrame)>> }

\* The target of bend_arm, in the avatar's own space.
IKTargets == { <<0, 0, 30>> }

\* Bounds output data: the center of each object, for the first n objects.
Center(o) == <<3 * o, 0, 14 + 16 * o>>
BoundsOf(n) == [k \in 1..n |-> [id |-> k - 1, center |-> Center(k - 1)]]
BoundsSnapshots == { BoundsOf(n) : n \in 1..(MaxObjectId + 1) }

(***************************************************************************)
(* The specification.                                                      *)
(***************************************************************************)
\* The index in JOINTS of the joint a command names.
JointIndex(c) ==
    CHOOSE k \in 1..Len(JOINTS) :
        JOINTS[k].joint = c.joint /\ JOINTS[k].axis = c.axis

\* net, a sum of deltas per joint, after the first n of these commands: each
\* command of this type adds its delta to the sum of the joint it names.
RECURSIVE NetAfter(_, _, _, _)
NetAfter(net, commands, type, n) ==
    IF n = 0 THEN net
    ELSE LET before == NetAfter(net, commands, type, n - 1)
             c == commands[n]
         IN  IF c.type = type
             THEN [before EXCEPT ![JointIndex(c)] = @ + c.delta]
             ELSE before

Emit(commands) ==
    /\ net_force' = NetAfter(net_force, commands, "adjust_joint_force_by",
                             Len(commands))
    /\ net_damper' = NetAfter(net_damper, commands, "adjust_joint_damper_by",
                              Len(commands))

\* The arm's joints carry fewer than MaxPendingBends unreverted bonuses.
MayBend(arm) ==
    \A k \in 1..Len(JOINTS) :
        JOINTS[k].arm = arm => net_force[k] < MaxPendingBends * _BEND_FORCE

Init ==
    /\ ik_goals = [arm \in Arm |-> None]
    /\ frame \in Frames
    /\ collisions = <<>>
    /\ env_collisions = <<>>
    /\ call = [op |-> "__init__"]
    /\ ret = [raised |-> FALSE, commands |-> <<>>, arm |-> None]
    /\ pre_goals = ik_goals
    /\ net_force = [k \in 1..Len(JOINTS) |-> 0]
    /\ net_damper = [k \in 1..Len(JOINTS) |-> 0]

\* A call's bookkeeping of the emitted deltas: kept when tracked, and then
\* the calls that bend an arm are capped by MayBend.
Account(tracked, commands) ==
    IF tracked THEN Emit(commands) ELSE UNCHANGED <<net_force, net_damper>>

BendArm(tracked) ==
    \E arm \in Arm, target \in IKTargets :
        \E r \in {bend_arm(ik_goals, frame, arm, target, None)} :
            /\ tracked => MayBend(arm)
            /\ ik_goals' = r.ik_goals
            /\ call' = [op |-> "bend_arm", arm |-> arm, target |-> target,
                        target_orientation |-> None]
            /\ ret' = [raised |-> FALSE, commands |-> r.commands, arm |-> None]
            /\ pre_goals' = ik_goals
            /\ Account(tracked, r.commands)
            /\ UNCHANGED <<frame, collisions, env_collisions>>

PickUpObject(tracked) ==
    \E object_id \in ObjectIds, bounds \in BoundsSnapshots :
        \E r \in {pick_up(ik_goals, frame, object_id, bounds)} :
            /\ IF tracked /\ ~r.raised THEN MayBend(r.arm.some) ELSE TRUE
            /\ ik_goals' = r.ik_goals
            /\ call' = [op |-> "pick_up", object_id |-> object_id,
                        bounds |-> bounds]
            /\ ret' = [raised |-> r.raised, commands |-> r.commands,
                       arm |-> r.arm,
                       target_orientation |-> r.target_orientation]
            /\ pre_goals' = ik_goals
            /\ Account(tracked, r.commands)
            /\ UNCHANGED <<frame, collisions, env_collisions>>

OnFrameWith(tracked, resp) ==
    \E r \in {on_frame(ik_goals, frame, collisions, env_collisions, resp)} :
        /\ ik_goals' = r.ik_goals
        /\ frame' = r.frame
        /\ collisions' = r.collisions
        /\ env_collisions' = r.env_collisions
        /\ call' = [op |-> "on_frame", resp |-> resp]
        /\ ret' = [raised |-> r.raised, commands |-> r.commands,
                   arm |-> None]
        /\ pre_goals' = ik_goals
        /\ Account(tracked, r.commands)

OnFrame(tracked) == \E resp \in Responses : OnFrameWith(tracked, resp)

PutDownObject(tracked) ==
    \E reset_arms \in BOOLEAN :
        \E r \in {put_down(ik_goals, reset_arms)} :
            /\ ik_goals' = r.ik_goals
            /\ call' = [op |-> "put_down", reset_arms |-> reset_arms]
            /\ ret' = [raised |-> FALSE, commands |-> r.commands, arm |-> None]
            /\ pre_goals' = ik_goals
            /\ Account(tracked, r.commands)
            /\ UNCHANGED <<frame, collisions, env_collisions>>

\* The program: any call, in any order.
Next ==
    \/ BendArm(FALSE)
    \/ PickUpObject(FALSE)
    \/ OnFrame(FALSE)
    \/ PutDownObject(FALSE)

Spec == Init /\ [][Next]_vars

\* The program with the emitted force and damper deltas summed up.
NextTracked ==
    \/ BendArm(TRUE)
    \/ PickUpObject(TRUE)
    \/ OnFrame(TRUE)
    \/ PutDownObject(TRUE)

SpecTracked == Init /\ [][NextTracked]_vars

\* Two snapshots with their records in every order: the states of another
\* avatar and of this one, a contact of body part 10 with an object and the
\* frame count; this avatar's state, a contact of body part 11 with the
\* environment and the frame count.
BusyFrame ==
    MakeFrame(StartPose,
              [angles |-> <<9500, 9000, 0, 0, 0, 7>>, mitten |-> <<-3, 0, 24>>,
               held |-> <<1>>],
              [angles |-> <<9500, 9000, 0, 0, 0, 7>>, mitten |-> <<3, 0, 24>>,
               held |-> <<0>>])

OrderSnapshots ==
    { <<Avsm("b", BusyFrame), Avsm(id, RestFrame), Coll(10, 0), FrameCount>>,
      <<Avsm(id, RestFrame), Enco(11), FrameCount>> }

PermutedResponses ==
    UNION { { [n \in 1..Len(s) |-> s[p[n]]] : p \in Permutations(1..Len(s)) } :
              s \in OrderSnapshots }

OnFramePermuted == \E resp \in PermutedResponses : OnFrameWith(FALSE, resp)

\* The program, given that snapshot in any order of its records.
NextPermuted ==
    \/ BendArm(FALSE)
    \/ PickUpObject(FALSE)
    \/ OnFramePermuted
    \/ PutDownObject(FALSE)

SpecPermuted == Init /\ [][NextPermuted]_vars

\* The queries, which read the state and leave it alone.
IsHolding ==
    \E object_id \in ObjectIds :
        \E r \in {is_holding(frame, object_id)} :
            /\ call' = [op |-> "is_holding", object_id |-> object_id]
            /\ ret' = [raised |-> FALSE, commands |-> <<>>,
                       arm |-> Some(r.arm), value |-> r.holding]
            /\ pre_goals' = ik_goals
            /\ UNCHANGED <<ik_goals, frame, collisions, env_collisions,
                           net_force, net_damper>>

IsIkDone ==
    /\ call' = [op |-> "is_ik_done"]
    /\ ret' = [raised |-> FALSE, commands |-> <<>>, arm |-> None,
               value |-> is_ik_done(ik_goals)]
    /\ pre_goals' = ik_goals
    /\ UNCHANGED <<ik_goals, frame, collisions, env_collisions,
                   net_force, net_damper>>

\* Snapshots in which both mittens hold something, and one without the
\* avatar's state.
HeldResponses ==
    { <<Avsm(id, fr), FrameCount>> :
        fr \in { f \in Frames : f.held_left /= <<>> /\ f.held_right /= <<>> } }
    \cup { <<Avsm("b", RestFrame), FrameCount>> }

OnFrameHeld == \E resp \in HeldResponses : OnFrameWith(FALSE, resp)

\* The program with its queries.
NextQueries ==
    \/ BendArm(FALSE)
    \/ PickUpObject(FALSE)
    \/ OnFrameHeld
    \/ PutDownObject(FALSE)
    \/ IsHolding
    \/ IsIkDone

SpecQueries == Init /\ [][NextQueries]_vars

\* The targets asked of can_bend_to, in units of 0.001: at the least
\* distance from the avatar and nearer, behind it, far from both shoulders,
\* and within reach of one arm only.
ReachTargets ==
    { <<0, 565, 250>>, <<0, 565, 200>>, <<0, 565, -100>>,
      <<-300, 565, -100>>, <<0, 565, 600>>, <<-300, 565, 300>>,
      <<300, 565, 300>>, <<0, 0, 300>> }

CanBendTo ==
    \E target \in ReachTargets, arm \in Arm :
        /\ call' = [op |-> "can_bend_to", target |-> target, arm |-> arm]
        /\ ret' = [raised |-> FALSE, commands |-> <<>>, arm |-> None,
                   value |-> can_bend_to(target, arm)]
        /\ pre_goals' = ik_goals
        /\ UNCHANGED <<ik_goals, frame, collisions, env_collisions,
                       net_force, net_damper>>

\* The arms bent and reset, and the reach of a target asked for.
NextReach ==
    \/ BendArm(FALSE)
    \/ PutDownObject(FALSE)
    \/ CanBendTo

SpecReach == Init /\ [][NextReach]_vars

\* The origins and the bounds of get_closest_point_in_bounds, in units of 1:
\* the first points of the six are 10000 away from the first origin, the
\* next ones and the last ones are two points as near to the first origin as
\* each other, the latter the nearer to the second origin.
Origins == { <<0, 0, 0>>, <<1, 0, 0>> }
ObjectBounds ==
    { [n \in 1..Len(BOUNDS_KEYS) |->
         IF n < k THEN <<10000, 0, 0>>
         ELSE IF n < m THEN <<0, 1, 0>>
         ELSE <<1, 0, 0>>] :
        k \in 1..(Len(BOUNDS_KEYS) + 1),
        m \in 1..(Len(BOUNDS_KEYS) + 1) }

GetClosestPointInBounds ==
    \E origin \in Origins, object_bounds \in ObjectBounds :
        \E r \in {get_closest_point_in_bounds(origin, object_bounds)} :
            /\ call' = [op |-> "get_closest_point_in_bounds",
                        origin |-> origin, object_bounds |-> object_bounds]
            /\ ret' = [raised |-> r.raised, commands |-> <<>>, arm |-> None,
                       key |-> r.key, value |-> r.point]
            /\ pre_goals' = ik_goals
            /\ UNCHANGED <<ik_goals, frame, collisions, env_collisions,
                           net_force, net_damper>>

\* The search for the nearest point of an object's bounds.
SpecBounds == Init /\ [][GetClosestPointInBounds]_vars

\* The frames in which each arm is at rest near the target, has drifted away
\* from it, or holds object 0, where the avatar was created.
ArmFrames ==
    { fr \in Frames :
        /\ fr.position = StartPose.position
        /\ fr.held_left \in {<<>>, <<0>>}
        /\ fr.held_right \in {<<>>, <<0>>} }

OnFrameArms ==
    \E fr \in ArmFrames : OnFrameWith(FALSE, <<Avsm(id, fr), FrameCount>>)

\* The program, ticked with those frames.
NextArms ==
    \/ BendArm(FALSE)
    \/ PickUpObject(FALSE)
    \/ OnFrameArms
    \/ PutDownObject(FALSE)

SpecArms == Init /\ [][NextArms]_vars

(***************************************************************************)
(* What the claims speak of.                                               *)
(***************************************************************************)
\* The number of commands of the list that satisfy P.
Count(commands, P(_)) ==
    Cardinality({n \in 1..Len(commands) : P(commands[n])})

JointsOf(arm) == {k \in 1..Len(JOINTS) : JOINTS[k].arm = arm}
OtherArm(arm) == IF arm = "left" THEN "right" ELSE "left"

Names(c, j) == c.joint = j.joint /\ c.axis = j.axis
IsJointCommand(c) ==
    c.type \in {"bend_arm_joint_to", "adjust_joint_force_by",
                "adjust_joint_damper_by"}
IsGrasp(c) == c.type \in {"pick_up_proximity", "pick_up"}

\* The list holds, for joint j, exactly one hold-angle command, one force
\* delta of -80 and one damper delta of +300.
StopsJoint(commands, j) ==
    LET Hold(c) == c.type = "bend_arm_joint_to" /\ Names(c, j)
        Force(c) == c.type = "adjust_joint_force_by" /\ Names(c, j)
        Damper(c) == c.type = "adjust_joint_damper_by" /\ Names(c, j)
        ForceRevert(c) == Force(c) /\ c.delta = -80
        DamperRevert(c) == Damper(c) /\ c.delta = 300
    IN  /\ Count(commands, Hold) = 1
        /\ Count(commands, Force) = 1 /\ Count(commands, ForceRevert) = 1
        /\ Count(commands, Damper) = 1 /\ Count(commands, DamperRevert) = 1

StopsArm(commands, arm) == \A k \in JointsOf(arm) : StopsJoint(commands, JOINTS[k])

\* The list holds no command for a joint of the arm.
NoJointCommand(commands, arm) ==
    \A n \in 1..Len(commands) :
        IsJointCommand(commands[n])
            => \A k \in JointsOf(arm) : ~Names(commands[n], JOINTS[k])

\* The list holds no grasp attempt for the arm.
NoGrasp(commands, arm) ==
    \A n \in 1..Len(commands) :
        IsGrasp(commands[n]) => commands[n].is_left /= (arm = "left")

HasTarget(goal) == goal /= None /\ goal.target /= None
IsDummy(goal) == goal /= None /\ goal.target = None
HasPickUpId(goal) == goal /= None /\ goal.pick_up_id /= None

\* The mitten of the arm is, in frame fr, at a distance below 0.1 of the
\* goal's target.
Within(goal, fr, arm) ==
    LET m == IF arm = "left" THEN fr.mitten_left ELSE fr.mitten_right
        dx == m[1] - goal.target[1]
        dy == m[2] - goal.target[2]
        dz == m[3] - goal.target[3]
    IN  dx * dx + dy * dy + dz * dz < 100

\* The goal's pick_up_id is in a held-object list of frame fr.
Held(goal, fr) ==
    \/ \E n \in 1..Len(fr.held_left) : Some(fr.held_left[n]) = goal.pick_up_id
    \/ \E n \in 1..Len(fr.held_right) : Some(fr.held_right[n]) = goal.pick_up_id

\* No joint of the arm differs by more than 0.03 between the frames.
Still(fr0, fr1, arm) ==
    LET a0 == IF arm = "left" THEN fr0.angles_left ELSE fr0.angles_right
        a1 == IF arm = "left" THEN fr1.angles_left ELSE fr1.angles_right
    IN  \A k \in 1..6 : a0[k] - a1[k] <= 3 /\ a1[k] - a0[k] <= 3

Ticked == call.op = "on_frame" /\ ~ret.raised

(***************************************************************************)
(* C1: whenever on_frame processes a frame in which an arm's mitten is at  *)
(* a distance below 0.1 of the real target in that arm's slot, the slot is *)
(* empty afterwards and the returned list holds, for each of the arm's six *)
(* joints, exactly one hold-angle, one force-revert (-80) and one          *)
(* damper-revert (+300) command, whatever the goal's pick_up_id, the held  *)
(* lists and the joints' motion are.                                       *)
(***************************************************************************)
C1_AtTargetStops ==
    Ticked =>
        \A arm \in Arm :
            (HasTarget(pre_goals[arm]) /\ Within(pre_goals[arm], frame, arm))
                => /\ ik_goals[arm] = None
                   /\ StopsArm(ret.commands, arm)

C1_Witness ==
    /\ Ticked
    /\ HasPickUpId(pre_goals["left"])
    /\ Within(pre_goals["left"], frame, "left")
    /\ frame.held_right /= <<>>
    /\ frame.angles_left[1] = 9500
    /\ ik_goals["left"] = None
    /\ HasTarget(pre_goals["right"]) /\ ~HasPickUpId(pre_goals["right"])
    /\ Within(pre_goals["right"], frame, "right")
    /\ Len(ret.commands) = 36

(***************************************************************************)
(* C2: for an arm whose slot holds a pick-up goal for X and whose mitten   *)
(* is not within 0.1 of the target, if the new frame lists X as held by    *)
(* the left or by the right mitten, on_frame empties the slot, emits the   *)
(* stop sequence for that arm and emits no grasp attempt for that arm.     *)
(***************************************************************************)
C2_HeldStops ==
    Ticked =>
        \A arm \in Arm :
            ( /\ HasTarget(pre_goals[arm]) /\ HasPickUpId(pre_goals[arm])
              /\ ~Within(pre_goals[arm], frame, arm)
              /\ Held(pre_goals[arm], frame) )
                => /\ ik_goals[arm] = None
                   /\ StopsArm(ret.commands, arm)
                   /\ NoGrasp(ret.commands, arm)

\* The left arm pursues X, and it is the right mitten that holds X.
C2_Witness ==
    /\ Ticked
    /\ HasTarget(pre_goals["left"]) /\ HasPickUpId(pre_goals["left"])
    /\ ~Within(pre_goals["left"], frame, "left")
    /\ frame.held_left = <<>>
    /\ Held(pre_goals["left"], frame)
    /\ ik_goals["left"] = None

(***************************************************************************)
(* C3: stall.  For an arm whose slot is non-empty after the first loop of  *)
(* on_frame (a goal not at its target and not acquired, or a dummy goal):  *)
(* if every joint angle of the arm differs by at most 0.03 between the     *)
(* frame that was current and the new one, the slot is empty afterwards    *)
(* and no hold-angle, force or damper command is emitted for the arm; if   *)
(* a joint differs by more, the goal is kept.                              *)
(***************************************************************************)
\* The goal is still in its slot after the first loop, run on frame fr.
Survives(goal, fr, arm) ==
    \/ IsDummy(goal)
    \/ /\ HasTarget(goal)
       /\ ~Within(goal, fr, arm)
       /\ ~(HasPickUpId(goal) /\ Held(goal, fr))

SameGoal(g, h) ==
    /\ g /= None /\ h /= None
    /\ g.target = h.target
    /\ g.pick_up_id = h.pick_up_id

C3_Stall ==
    [][ (call'.op = "on_frame" /\ ~ret'.raised) =>
          \A arm \in Arm :
              Survives(ik_goals[arm], frame', arm)
                  => IF Still(frame, frame', arm)
                     THEN /\ ik_goals'[arm] = None
                          /\ NoJointCommand(ret'.commands, arm)
                     ELSE SameGoal(ik_goals'[arm], ik_goals[arm]) ]_vars

\* A Seeking goal of the left arm, away from its target, ended by a tick in
\* which the right arm's goal was kept.
C3_Witness ==
    /\ Ticked
    /\ HasTarget(pre_goals["left"]) /\ ~HasPickUpId(pre_goals["left"])
    /\ ~Within(pre_goals["left"], frame, "left")
    /\ ik_goals["left"] = None
    /\ NoJointCommand(ret.commands, "left")
    /\ frame.angles_left[6] = 3
    /\ IsDummy(pre_goals["right"])
    /\ ik_goals["right"] /= None

(***************************************************************************)
(* C4: on_frame empties a slot only when, in that tick, the mitten is      *)
(* within 0.1 of the stored target, or the goal's pick_up_id is in a held  *)
(* list of the new frame, or no joint of the arm changed by more than 0.03 *)
(* since the previous frame; it never fills an empty slot and never        *)
(* changes the target or the pick_up_id of a goal it keeps, also when the  *)
(* avatar's position or facing differs between the frames.                 *)
(***************************************************************************)
C4_GoalLifecycle ==
    [][ call'.op = "on_frame" =>
          \A arm \in Arm :
              /\ ik_goals[arm] = None => ik_goals'[arm] = None
              /\ (ik_goals[arm] /= None /\ ik_goals'[arm] = None)
                    => \/ /\ HasTarget(ik_goals[arm])
                          /\ Within(ik_goals[arm], frame', arm)
                       \/ /\ HasPickUpId(ik_goals[arm])
                          /\ Held(ik_goals[arm], frame')
                       \/ Still(frame, frame', arm)
              /\ (ik_goals[arm] /= None /\ ik_goals'[arm] /= None)
                    => SameGoal(ik_goals'[arm], ik_goals[arm]) ]_vars

\* A goal set where the avatar was created is kept by a tick whose frame
\* reports the avatar elsewhere, facing another way.
C4_Witness ==
    /\ Ticked
    /\ HasTarget(ik_goals["left"])
    /\ ik_goals["left"].target = <<0, 0, 30>>
    /\ SameGoal(ik_goals["left"], pre_goals["left"])
    /\ frame.position = <<-30, 0, 40>>
    /\ frame.forward = <<1, 0, 0>>

(***************************************************************************)
(* C5: the force and damper overrides of bend_arm are reversed when the    *)
(* goal ends: in every state where an arm's slot is empty, the sum of the  *)
(* force deltas and the sum of the damper deltas emitted so far are zero   *)
(* for each joint of that arm.                                             *)
(***************************************************************************)
C5_OverridesReversed ==
    \A arm \in Arm :
        ik_goals[arm] = None
            => \A k \in JointsOf(arm) : net_force[k] = 0 /\ net_damper[k] = 0

(***************************************************************************)
(* C6: put_down always returns a release command for the left and one for *)
(* the right mitten; with reset_arms it also returns one angle-zero        *)
(* command for each of the 12 joints and afterwards both slots hold a      *)
(* dummy goal (no target, no pick_up_id) whatever they held; without       *)
(* reset_arms both slots and the current frame are unchanged.              *)
(***************************************************************************)
C6_PutDown ==
    [][ call'.op = "put_down" =>
          LET commands == ret'.commands
              Release(is_left) ==
                  Cardinality({n \in 1..Len(commands) :
                      /\ commands[n].type = "put_down"
                      /\ commands[n].is_left = is_left})
              ZeroAngle(j) ==
                  Cardinality({n \in 1..Len(commands) :
                      /\ commands[n].type = "bend_arm_joint_to"
                      /\ Names(commands[n], j)
                      /\ commands[n].angle = 0})
          IN  /\ ~ret'.raised
              /\ Release(TRUE) = 1 /\ Release(FALSE) = 1
              /\ IF call'.reset_arms
                 THEN /\ \A k \in 1..12 : ZeroAngle(JOINTS[k]) = 1
                      /\ Len(commands) = 14
                      /\ \A arm \in Arm :
                            /\ ik_goals'[arm] /= None
                            /\ ik_goals'[arm].target = None
                            /\ ik_goals'[arm].pick_up_id = None
                 ELSE /\ Len(commands) = 2
                      /\ ik_goals' = ik_goals
                      /\ frame' = frame ]_vars

\* put_down(reset_arms = True) over a pick-up goal and a Seeking goal.
C6_Witness ==
    /\ call.op = "put_down" /\ call.reset_arms
    /\ HasPickUpId(pre_goals["left"])
    /\ HasTarget(pre_goals["right"])
    /\ IsDummy(ik_goals["left"]) /\ IsDummy(ik_goals["right"])
    /\ Len(ret.commands) = 14

Distance2(p, q) ==
    (p[1] - q[1]) * (p[1] - q[1]) + (p[2] - q[2]) * (p[2] - q[2])
        + (p[3] - q[3]) * (p[3] - q[3])

InBounds(bounds, object_id) ==
    \E n \in 1..Len(bounds) : bounds[n].id = object_id

CenterIn(bounds, object_id) ==
    LET first == CHOOSE n \in 1..Len(bounds) :
                    /\ bounds[n].id = object_id
                    /\ \A m \in 1..(n - 1) : bounds[m].id /= object_id
    IN  bounds[first].center

C8_PickUpArm ==
    (call.op = "pick_up" /\ InBounds(call.bounds, call.object_id)) =>
        LET center == CenterIn(call.bounds, call.object_id)
            chosen == IF Distance2(frame.mitten_left, center)
                            <= Distance2(frame.mitten_right, center)
                      THEN "left" ELSE "right"
        IN  /\ ~ret.raised
            /\ ret.arm = Some(chosen)
            /\ HasTarget(ik_goals[chosen])
            /\ ik_goals[chosen].pick_up_id = Some(call.object_id)
            /\ ik_goals[OtherArm(chosen)] = pre_goals[OtherArm(chosen)]

\* A tie, which goes to the left arm while the right arm has a goal.
C8_Witness ==
    /\ call.op = "pick_up" /\ ~ret.raised
    /\ Distance2(frame.mitten_left, CenterIn(call.bounds, call.object_id))
          = Distance2(frame.mitten_right, CenterIn(call.bounds, call.object_id))
    /\ ret.arm = Some("left")
    /\ HasPickUpId(ik_goals["left"])
    /\ HasTarget(ik_goals["right"])
    /\ HasTarget(pre_goals["left"])

(***************************************************************************)
(* C9: bend_arm(arm, target) for a chain of six actuated joints returns    *)
(* exactly 18 commands: for each joint, in chain order, one set-angle      *)
(* command, one force delta of +80 and one damper delta of -300;           *)
(* afterwards the arm's slot holds a goal with a real target and no        *)
(* pick_up_id, whatever it held, and the other arm's slot and the current  *)
(* frame are unchanged.                                                    *)
(***************************************************************************)
C9_BendArm ==
    [][ call'.op = "bend_arm" =>
          LET commands == ret'.commands
              arm == call'.arm
              first == IF arm = "left" THEN 0 ELSE 6
          IN  /\ ~ret'.raised
              /\ Len(commands) = 18
              /\ \A k \in 1..6 :
                    /\ commands[3 * k - 2].type = "bend_arm_joint_to"
                    /\ Names(commands[3 * k - 2], JOINTS[first + k])
                    /\ commands[3 * k - 1].type = "adjust_joint_force_by"
                    /\ Names(commands[3 * k - 1], JOINTS[first + k])
                    /\ commands[3 * k - 1].delta = 80
                    /\ commands[3 * k].type = "adjust_joint_damper_by"
                    /\ Names(commands[3 * k], JOINTS[first + k])
                    /\ commands[3 * k].delta = -300
              /\ HasTarget(ik_goals'[arm])
              /\ ik_goals'[arm].pick_up_id = None
              /\ ik_goals'[OtherArm(arm)] = ik_goals[OtherArm(arm)]
              /\ frame' = frame ]_vars

\* bend_arm of the left arm over a pick-up goal, the right arm pursuing.
C9_Witness ==
    /\ call.op = "bend_arm" /\ call.arm = "left"
    /\ HasPickUpId(pre_goals["left"])
    /\ HasTarget(ik_goals["left"]) /\ ~HasPickUpId(ik_goals["left"])
    /\ HasPickUpId(ik_goals["right"])
    /\ Len(ret.commands) = 18

(***************************************************************************)
(* C10: when the object id is absent from bounds, pick_up raises, returns  *)
(* no commands and leaves both slots and the current frame as they were.   *)
(***************************************************************************)
C10_PickUpAbsent ==
    [][ (call'.op = "pick_up" /\ ~InBounds(call'.bounds, call'.object_id)) =>
          /\ ret'.raised
          /\ ret'.commands = <<>>
          /\ ik_goals' = ik_goals
          /\ frame' = frame ]_vars

C10_Witness ==
    /\ call.op = "pick_up"
    /\ ~InBounds(call.bounds, call.object_id)
    /\ ret.raised
    /\ HasTarget(ik_goals["left"])
    /\ IsDummy(ik_goals["right"])

(***************************************************************************)
(* C11: when the snapshot passed to on_frame holds no dynamic-state record *)
(* of this avatar, on_frame raises and leaves both slots, the current      *)
(* frame, collisions and env_collisions exactly as they were.              *)
(***************************************************************************)
\* A record of the snapshot is the dynamic state of this avatar.
HasOwnState(resp) ==
    \E n \in 1..Len(resp) : resp[n].r_id = "avsm" /\ resp[n].avatar_id = "a"

C11_MissingState ==
    [][ (call'.op = "on_frame" /\ ~HasOwnState(call'.resp)) =>
          /\ ret'.raised
          /\ ret'.commands = <<>>
          /\ ik_goals' = ik_goals
          /\ frame' = frame
          /\ collisions' = collisions
          /\ env_collisions' = env_collisions ]_vars

\* on_frame has raised while an arm pursued a goal and contacts were known.
C11_Witness ==
    /\ call.op = "on_frame" /\ ~HasOwnState(call.resp)
    /\ ret.raised
    /\ HasTarget(ik_goals["left"])
    /\ DOMAIN collisions /= {}
    /\ env_collisions /= <<>>

(***************************************************************************)
(* C12 as claimed: for any state and any snapshot with exactly one         *)
(* dynamic-state record of this avatar, on_frame has the same outcome      *)
(* (error or not, commands, slots, frame, collisions and env_collisions as *)
(* sets) for every permutation of the snapshot's records, also for those   *)
(* that place the dynamic-state record or a contact record last.           *)
(***************************************************************************)
IsOwnState(r) == r.r_id = "avsm" /\ r.avatar_id = "a"

ExactlyOneOwnState(resp) ==
    Cardinality({n \in 1..Len(resp) : IsOwnState(resp[n])}) = 1

\* An order of the kinds of record.
Rank(r) ==
    IF r.r_id = "avsm" THEN (IF r.avatar_id = "a" THEN 2 ELSE 1)
    ELSE IF r.r_id = "coll" THEN 3
    ELSE IF r.r_id = "enco" THEN 4
    ELSE 5

\* The first n elements of resp (of distinct ranks) by rank, then the rest
\* as it is: one representative of the permutations of resp that move only
\* its first n elements.
Ranked(resp, n) ==
    LET Place(k) ==
            1 + Cardinality({j \in 1..n : Rank(resp[j]) < Rank(resp[k])})
    IN  [m \in 1..Len(resp) |->
            IF m > n THEN resp[m]
            ELSE resp[CHOOSE k \in 1..n : Place(k) = m]]

\* collisions with the lists of its values as sets.
AsSets(c) == [k \in DOMAIN c |-> {c[k][n] : n \in 1..Len(c[k])}]

\* What the claim compares of a call of on_frame.
Outcome(r) ==
    [raised |-> r.raised, commands |-> r.commands, ik_goals |-> r.ik_goals,
     frame |-> r.frame, collisions |-> AsSets(r.collisions),
     env_collisions |-> {r.env_collisions[n] : n \in 1..Len(r.env_collisions)}]

C12_OrderInsignificant ==
    [][ (call'.op = "on_frame" /\ ExactlyOneOwnState(call'.resp)) =>
          \A ranked \in {Ranked(call'.resp, Len(call'.resp))} :
            \A r \in {on_frame(ik_goals, frame, collisions, env_collisions,
                               ranked)} :
              Outcome([raised |-> ret'.raised, commands |-> ret'.commands,
                       ik_goals |-> ik_goals', frame |-> frame',
                       collisions |-> collisions',
                       env_collisions |-> env_collisions']) = Outcome(r) ]_vars

(***************************************************************************)
(* C12, amended: the outcome of on_frame is the same for every permutation *)
(* of the snapshot's records that leaves its last element in place; the    *)
(* last element is not read, so that on_frame raises when it is the        *)
(* avatar's only dynamic-state record.                                     *)
(***************************************************************************)
C12_OrderButLast ==
    [][ (call'.op = "on_frame" /\ ExactlyOneOwnState(call'.resp)) =>
          /\ \A ranked \in {Ranked(call'.resp, Len(call'.resp) - 1)} :
               \A r \in {on_frame(ik_goals, frame, collisions,
                                  env_collisions, ranked)} :
                 Outcome([raised |-> ret'.raised, commands |-> ret'.commands,
                          ik_goals |-> ik_goals', frame |-> frame',
                          collisions |-> collisions',
                          env_collisions |-> env_collisions']) = Outcome(r)
          /\ ret'.raised = IsOwnState(call'.resp[Len(call'.resp)]) ]_vars

\* on_frame has succeeded on a snapshot that starts with a contact and holds
\* this avatar's state before the other avatar's, while an arm was reaching
\* for an object.
C12_Witness ==
    /\ Ticked
    /\ Len(call.resp) = 4
    /\ call.resp[1].r_id = "coll"
    /\ IsOwnState(call.resp[2])
    /\ call.resp[3].r_id = "avsm"
    /\ DOMAIN collisions /= {}
    /\ HasPickUpId(pre_goals["left"])
    /\ ret.commands /= <<>>

(***************************************************************************)
(* C13: after every successful on_frame, collisions holds exactly the      *)
(* contacts of that call's snapshot of which exactly one side is a         *)
(* registered body part, keyed by the body part and valued by the other    *)
(* side, so that its keys are registered body parts and none of its values *)
(* is; env_collisions holds only registered body parts, those of the       *)
(* snapshot's environment contacts; nothing of an earlier snapshot is      *)
(* left in either.                                                         *)
(***************************************************************************)
\* What touches body part p in the snapshot, itself not a body part.
Touching(resp, p) ==
    { resp[n].collidee_id :
        n \in { m \in 1..Len(resp) :
                  /\ resp[m].r_id = "coll"
                  /\ resp[m].collider_id = p
                  /\ resp[m].collidee_id \notin body_parts_static } }
    \cup
    { resp[n].collider_id :
        n \in { m \in 1..Len(resp) :
                  /\ resp[m].r_id = "coll"
                  /\ resp[m].collidee_id = p
                  /\ resp[m].collider_id \notin body_parts_static } }

HeldBy(fr, side, x) ==
    LET held == IF side = "left" THEN fr.held_left ELSE fr.held_right
    IN  \E n \in 1..Len(held) : held[n] = x

C14_IsHolding ==
    [][ call'.op = "is_holding" =>
          /\ ~ret'.raised
          /\ HeldBy(frame, "left", call'.object_id)
                => ret'.value /\ ret'.arm = Some("left")
          /\ (HeldBy(frame, "right", call'.object_id)
                /\ ~HeldBy(frame, "left", call'.object_id))
                => ret'.value /\ ret'.arm = Some("right")
          /\ (~HeldBy(frame, "left", call'.object_id)
                /\ ~HeldBy(frame, "right", call'.object_id))
                => ~ret'.value /\ ret'.arm = Some("left")
          /\ ik_goals' = ik_goals
          /\ frame' = frame ]_vars

\* The object asked for is in both lists, the answer is the left arm, and
\* an arm has a goal.
C14_Witness ==
    /\ call.op = "is_holding"
    /\ HeldBy(frame, "left", call.object_id)
    /\ HeldBy(frame, "right", call.object_id)
    /\ ret.value /\ ret.arm = Some("left")
    /\ HasTarget(ik_goals["right"])

(***************************************************************************)
(* C15: in every state reached by bend_arm, pick_up, put_down and on_frame *)
(* calls, is_ik_done() returns true exactly when both slots are empty; it  *)
(* is true right after construction and false right after bend_arm, after  *)
(* a pick_up that returned and after put_down(reset_arms = True).          *)
(***************************************************************************)
BothEmpty(goals) == \A arm \in {"left", "right"} : goals[arm] = None

C15_IsIkDone ==
    [][ call'.op = "is_ik_done" =>
          /\ ret'.value = BothEmpty(ik_goals)
          /\ ik_goals' = ik_goals
          /\ call.op = "__init__" => ret'.value
          /\ call.op = "bend_arm" => ~ret'.value
          /\ (call.op = "pick_up" /\ ~ret.raised) => ~ret'.value
          /\ (call.op = "put_down" /\ call.reset_arms) => ~ret'.value ]_vars

\* is_ik_done has answered no while both slots held a goal without target.
C15_Witness ==
    /\ call.op = "is_ik_done"
    /\ ~ret.value
    /\ IsDummy(ik_goals["left"]) /\ IsDummy(ik_goals["right"])

(***************************************************************************)
(* C16: can_bend_to(target, arm) returns false iff the target is at a      *)
(* horizontal distance below 0.25 of the avatar's origin, or at a distance *)
(* above 0.52 of the arm's shoulder (left (-0.225, 0.565, 0.075), right    *)
(* (0.225, 0.565, 0.075)), or has a negative forward coordinate; a target  *)
(* at a horizontal distance of 0.2 or at a forward coordinate of -0.1 is   *)
(* rejected for both arms; the call changes no slot and not the frame.     *)
(***************************************************************************)
Unreachable(t, arm) ==
    LET sx == IF arm = "left" THEN -225 ELSE 225
        dx == t[1] - sx
        dy == t[2] - 565
        dz == t[3] - 75
    IN  \/ t[1] * t[1] + t[3] * t[3] < 250 * 250
        \/ dx * dx + dy * dy + dz * dz > 520 * 520
        \/ t[3] < 0

C16_CanBendTo ==
    [][ call'.op = "can_bend_to" =>
          /\ ret'.value = ~Unreachable(call'.target, call'.arm)
          /\ (call'.target[1] * call'.target[1]
                + call'.target[3] * call'.target[3] = 200 * 200)
                => ~ret'.value
          /\ call'.target[3] = -100 => ~ret'.value
          /\ ik_goals' = ik_goals
          /\ frame' = frame ]_vars

\* A target behind the avatar, neither too near nor too far from the left
\* shoulder, has been rejected while the left arm had a goal.
C16_Witness ==
    /\ call.op = "can_bend_to" /\ call.arm = "left"
    /\ call.target = <<-300, 565, -100>>
    /\ ~ret.value
    /\ HasTarget(ik_goals["left"])

(***************************************************************************)
(* C17: get_closest_point_in_bounds always returns one of the six supplied *)
(* points, for every origin and all points, however far they are; no       *)
(* supplied point is nearer to the origin than the returned one, and of    *)
(* the points at the least distance the first in the order top, bottom,    *)
(* left, right, front, back is returned.                                   *)
(***************************************************************************)
C17_NearestPoint ==
    call.op = "get_closest_point_in_bounds" =>
        /\ ~ret.raised
        /\ \E n \in 1..6 :
              /\ ret.value = call.object_bounds[n]
              /\ ret.key = <<"top", "bottom", "left", "right", "front",
                             "back">>[n]
              /\ \A m \in 1..6 :
                    Distance2(call.origin, call.object_bounds[n])
                        <= Distance2(call.origin, call.object_bounds[m])
              /\ \A m \in 1..(n - 1) :
                    Distance2(call.origin, call.object_bounds[n])
                        < Distance2(call.origin, call.object_bounds[m])

(***************************************************************************)
(* C18: the arms do not exclude each other: pick_up of an object that the  *)
(* other arm is already after neither raises nor clears the other arm's    *)
(* goal, so that both slots hold pick-up goals with the same pick_up_id.   *)
(***************************************************************************)
After(goal, x) == goal /= None /\ goal.pick_up_id = Some(x)

C18_BothArmsSameObject ==
    \A arm \in {"left", "right"} :
        ( /\ call.op = "pick_up"
          /\ InBounds(call.bounds, call.object_id)
          /\ After(pre_goals[arm], call.object_id)
          /\ ret.arm = Some(OtherArm(arm)) )
        => /\ ~ret.raised
           /\ ik_goals[arm] = pre_goals[arm]
           /\ After(ik_goals["left"], call.object_id)
           /\ After(ik_goals["right"], call.object_id)

\* Both arms are after the object that pick_up was just called for.
C18_Witness ==
    /\ call.op = "pick_up" /\ ~ret.raised
    /\ After(pre_goals["right"], call.object_id)
    /\ ret.arm = Some("left")
    /\ After(ik_goals["left"], call.object_id)
    /\ After(ik_goals["right"], call.object_id)
    /\ HasTarget(ik_goals["left"]) /\ HasTarget(ik_goals["right"])

(***************************************************************************)
(* C19 as claimed: whenever on_frame emits a grasp-attempt pair for an arm *)
(* (pick_up_id set, object not held, mitten not within 0.1 of the target), *)
(* the arm's slot still holds the same pick-up goal, with the same target  *)
(* and pick_up_id, when that call returns.                                 *)
(***************************************************************************)
GraspsWith(commands, arm) ==
    \E n \in 1..Len(commands) :
        IsGrasp(commands[n]) /\ commands[n].is_left = (arm = "left")

C19_GraspKeepsGoal ==
    Ticked =>
        \A arm \in {"left", "right"} :
            GraspsWith(ret.commands, arm)
                => SameGoal(ik_goals[arm], pre_goals[arm])

(***************************************************************************)
(* C19, amended: when on_frame emits a grasp-attempt pair for an arm, the  *)
(* arm's slot still holds the same pick-up goal when the call returns if   *)
(* a joint of the arm changed by more than 0.03 since the previous frame,  *)
(* and is empty if none did: the stall check runs after the pair is        *)
(* emitted.                                                                *)
(***************************************************************************)
C19_GraspKeepsMovingGoal ==
    [][ (call'.op = "on_frame" /\ ~ret'.raised) =>
          \A arm \in {"left", "right"} :
              GraspsWith(ret'.commands, arm)
                  => /\ HasPickUpId(ik_goals[arm])
                     /\ IF Still(frame, frame', arm)
                        THEN ik_goals'[arm] = None
                        ELSE SameGoal(ik_goals'[arm], ik_goals[arm]) ]_vars

\* A grasp was attempted for the left arm, whose goal the same call has
\* cleared, and for the right arm, whose goal it has kept.
C19_Witness ==
    /\ Ticked
    /\ GraspsWith(ret.commands, "left")
    /\ HasPickUpId(pre_goals["left"])
    /\ ik_goals["left"] = None
    /\ GraspsWith(ret.commands, "right")
    /\ SameGoal(ik_goals["right"], pre_goals["right"])

(***************************************************************************)
(* C20: in every on_frame call that starts with an arm's slot holding a    *)
(* goal with pick_up_id = X, where the new frame's mitten position of that *)
(* arm is not within 0.1 of the target and X is in neither held list, the  *)
(* returned list holds exactly one pick_up_proximity and exactly one       *)
(* pick_up command for that arm, each with is_left of that arm and         *)
(* object_ids = [X].                                                       *)
(***************************************************************************)
C20_GraspEveryTick ==
    [][ (call'.op = "on_frame" /\ ~ret'.raised) =>
          \A arm \in {"left", "right"} :
              ( /\ HasPickUpId(ik_goals[arm])
                /\ HasTarget(ik_goals[arm])
                /\ ~Within(ik_goals[arm], frame', arm)
                /\ ~Held(ik_goals[arm], frame') )
              => LET Proximity(c) == /\ c.type = "pick_up_proximity"
                                     /\ c.is_left = (arm = "left")
                     Grasp(c) == /\ c.type = "pick_up"
                                 /\ c.is_left = (arm = "left")
                     ForX(c) == /\ IsGrasp(c)
                                /\ c.is_left = (arm = "left")
                                /\ c.object_ids
                                     = <<ik_goals[arm].pick_up_id.some>>
                 IN  /\ Count(ret'.commands, Proximity) = 1
                     /\ Count(ret'.commands, Grasp) = 1
                     /\ Count(ret'.commands, ForX) = 2 ]_vars

\* Both arms were after an object, neither near nor holding it, and the
\* call returned a pair for each, the right arm's for object 0.
C20_Witness ==
    /\ Ticked
    /\ \A arm \in {"left", "right"} :
          /\ HasPickUpId(pre_goals[arm])
          /\ ~Within(pre_goals[arm], frame, arm)
          /\ ~Held(pre_goals[arm], frame)
    /\ pre_goals["right"].pick_up_id = Some(0)
    /\ Len(ret.commands) = 4
    /\ ret.commands[3].type = "pick_up_proximity"
    /\ ~ret.commands[3].is_left
    /\ ret.commands[4].object_ids = <<0>>

(***************************************************************************)
(* C21: once the joints stop moving the goals end and stay ended: when     *)
(* on_frame processes a frame in which no joint of either arm differs by   *)
(* more than 0.03 from the frame that was current, is_ik_done() is true    *)
(* when it returns, whatever the two slots held (a target, a target with a *)
(* pick_up_id, a goal without a target, or nothing); and once is_ik_done() *)
(* is true it stays true across every call that is not bend_arm, pick_up   *)
(* or put_down(reset_arms = True).                                         *)
(***************************************************************************)
C21_StillEndsGoals ==
    [][ /\ (/\ call'.op = "on_frame" /\ ~ret'.raised
            /\ \A arm \in Arm : Still(frame, frame', arm))
           => is_ik_done(ik_goals')
        /\ (/\ is_ik_done(ik_goals)
            /\ call'.op \notin {"bend_arm", "pick_up"}
            /\ ~(call'.op = "put_down" /\ call'.reset_arms))
           => is_ik_done(ik_goals') ]_vars

\* A tick in which the left arm's goal, away from its target, and the right
\* arm's goal without a target both ended with no command sent: neither arm
\* moved.
C21_Witness ==
    /\ Ticked
    /\ HasTarget(pre_goals["left"])
    /\ ~Within(pre_goals["left"], frame, "left")
    /\ ~(HasPickUpId(pre_goals["left"]) /\ Held(pre_goals["left"], frame))
    /\ IsDummy(pre_goals["right"])
    /\ NoJointCommand(ret.commands, "left")
    /\ is_ik_done(ik_goals)

\* The commands of the list that address the arm: those for one of its
\* joints and the grasp attempts of its mitten.
CommandsFor(commands, arm) ==
    LET Addressed(c) ==
            \/ IsJointCommand(c) /\ \E k \in JointsOf(arm) : Names(c, JOINTS[k])
            \/ IsGrasp(c) /\ c.is_left = (arm = "left")
    IN  SelectSeq(commands, Addressed)

\* What the other arm's slot may hold instead: nothing, a goal without a
\* target, a goal with a target, and the goal of this arm (the same object).
OtherContents(goal) ==
    {None, _IKGoal(None, None), _IKGoal(<<0, 0, 30>>, None), goal}

(***************************************************************************)
(* C22: the two arms do not influence each other in on_frame: for the      *)
(* frame that is current, the data processed and the content of one arm's  *)
(* slot, the content of that arm's slot afterwards and the commands        *)
(* returned for that arm are the same whatever the other arm's slot holds  *)
(* (nothing, a goal without a target, a goal with a target, a goal for the *)
(* same object).                                                           *)
(***************************************************************************)
C22_ArmsIndependent ==
    [][ call'.op = "on_frame" =>
          \A arm \in Arm : \A other \in OtherContents(ik_goals[arm]) :
              \A r \in {on_frame([ik_goals EXCEPT ![OtherArm(arm)] = other],
                                 frame, collisions, env_collisions,
                                 call'.resp)} :
                  /\ r.raised = ret'.raised
                  /\ r.ik_goals[arm] = ik_goals'[arm]
                  /\ CommandsFor(r.commands, arm)
                         = CommandsFor(ret'.commands, arm) ]_vars

\* Both slots held a goal for the same object: in one tick the left arm's
\* grasp was attempted and its goal ended because the arm did not move, and
\* the right arm was stopped.
C22_Witness ==
    /\ Ticked
    /\ HasPickUpId(pre_goals["left"])
    /\ HasPickUpId(pre_goals["right"])
    /\ pre_goals["left"].pick_up_id = pre_goals["right"].pick_up_id
    /\ ik_goals["left"] = None
    /\ NoJointCommand(ret.commands, "left")
    /\ CommandsFor(ret.commands, "left") /= <<>>
    /\ StopsArm(ret.commands, "right")

\* The list is one grasp attempt: a proximity pick-up, then a pick-up.
IsGraspPair(commands) ==
    /\ Len(commands) = 2
    /\ commands[1].type = "pick_up_proximity"
    /\ commands[2].type = "pick_up"

\* The list is one stop sequence of the arm: three commands for each of its
\* six joints and nothing else.
IsStopSequence(commands, arm) ==
    /\ Len(commands) = 3 * Cardinality(JointsOf(arm))
    /\ StopsArm(commands, arm)

(***************************************************************************)
(* C23: the commands one on_frame call returns for an arm are nothing, or  *)
(* one grasp attempt (a proximity pick-up and a pick-up), or one stop      *)
(* sequence, never a grasp attempt with a stop sequence and never two stop *)
(* sequences; an arm whose slot was empty or held a goal without a target  *)
(* gets no command, wherever its mitten is and whatever the mittens hold.  *)
(***************************************************************************)
C23_OneCommandGroup ==
    Ticked =>
        /\ Len(ret.commands) = Len(CommandsFor(ret.commands, "left"))
                                 + Len(CommandsFor(ret.commands, "right"))
        /\ \A arm \in Arm :
              \A cs \in {CommandsFor(ret.commands, arm)} :
                  /\ \/ cs = <<>>
                     \/ IsGraspPair(cs)
                     \/ IsStopSequence(cs, arm)
                  /\ (pre_goals[arm] = None \/ IsDummy(pre_goals[arm]))
                        => cs = <<>>

\* A tick in which the left arm, whose goal has no target and whose mitten
\* holds an object, got no command, the right arm got a stop sequence.
C23_Witness ==
    /\ Ticked
    /\ IsDummy(pre_goals["left"])
    /\ frame.held_left /= <<>>
    /\ CommandsFor(ret.commands, "left") = <<>>
    /\ IsStopSequence(CommandsFor(ret.commands, "right"), "right")
    /\ HasPickUpId(pre_goals["right"])

\* The hold-angle commands of the list for joint j.
HoldAngles(commands, j) ==
    { commands[n].angle :
        n \in { m \in 1..Len(commands) :
                  /\ commands[m].type = "bend_arm_joint_to"
                  /\ Names(commands[m], j) } }

\* The k-th angle of the arm in frame fr: JOINTS lists the left arm's six
\* joints, then the right arm's.
AngleOfJoint(fr, k) ==
    IF JOINTS[k].arm = "left" THEN fr.angles_left[k]
    ELSE fr.angles_right[k - 6]

(***************************************************************************)
(* C24: each hold-angle command of a stop sequence returned by on_frame    *)
(* carries the joint's angle of the frame that was current before the call *)
(* (not of the frame being processed), folded: an angle a above 90 becomes *)
(* 180 - a, an angle of at most 90 is passed as it is; so every hold angle *)
(* returned is at most 90.                                                 *)
(***************************************************************************)
C24_HoldAngles ==
    [][ (call'.op = "on_frame" /\ ~ret'.raised) =>
          \A k \in 1..Len(JOINTS) :
              \A a \in {AngleOfJoint(frame, k)} :
                  \A h \in HoldAngles(ret'.commands, JOINTS[k]) :
                      /\ a > 9000 => h = 18000 - a
                      /\ a <= 9000 => h = a
                      /\ h <= 9000 ]_vars

\* The left arm was stopped by a tick whose frame reports its first joint at
\* 0 degrees, and the hold angle of that joint is 85: the 95 degrees of the
\* frame before, folded.
C24_Witness ==
    /\ Ticked
    /\ StopsArm(ret.commands, "left")
    /\ frame.angles_left[1] = 0
    /\ HoldAngles(ret.commands, JOINTS[1]) = {8500}
    /\ HoldAngles(ret.commands, JOINTS[2]) = {9000}

\* Vector o is a positive multiple of vector v.
PositiveMultiple(o, v) ==
    /\ o[2] * v[3] - o[3] * v[2] = 0
    /\ o[3] * v[1] - o[1] * v[3] = 0
    /\ o[1] * v[2] - o[2] * v[1] = 0
    /\ o[1] * v[1] + o[2] * v[2] + o[3] * v[3] > 0

(***************************************************************************)
(* C25: the target orientation that pick_up passes to bend_arm points from *)
(* the chosen mitten's position to the object's center: it is a positive   *)
(* multiple of (center - mitten).                                          *)
(***************************************************************************)
C25_OrientationToCenter ==
    (call.op = "pick_up" /\ ~ret.raised) =>
        \A mitten \in {MittenPosition(frame, ret.arm.some)} :
            PositiveMultiple(ret.target_orientation.some,
                             VSub(CenterIn(call.bounds, call.object_id),
                                  mitten))

====
